---- MODULE Spec2Model ----
(***************************************************************************)
(* A model of the hollow heap of src/src/lib.rs: the node arena, the       *)
(* structural operations on nodes (add_child, link, ranked_link), and the  *)
(* heap operations push, peek, change_key, change_item, delete and pop.    *)
(* Every heap operation is one action; the extract rebuild of delete is    *)
(* computed by recursive operators that follow the loops of the code.      *)
(***************************************************************************)
EXTENDS Integers, Sequences, FiniteSets, TLC

(***************************************************************************)
(* Bounds of the model.                                                    *)
(***************************************************************************)
MaxKey == 2
MaxNodes == 3
MaxPush == 3
MaxUse == 3
MaxFill == 10

FillValues == {1, 3}
FillKeys == {0, 2, 4}

ScriptValues == {1, 2, 3, 4, 5, 42}

Values == 0 .. MaxKey
Keys == 0 .. MaxKey

(***************************************************************************)
(* Option<T>: None is the empty tuple, Some(x) the one-element tuple.      *)
(***************************************************************************)
None == <<>>
Some(x) == <<x>>
IsSome(o) == o # <<>>
Unwrap(o) == o[1]

VARIABLES
    dag,        \* the arena of nodes (HollowHeap::dag)
    dag_root,   \* Option<Index> of the root (HollowHeap::dag_root)
    compare,    \* "min" or "max": the compare function pointer of the heap
    aborted,    \* TRUE once an operation has panicked
    live,       \* the caller's count of live items
    entries,    \* the caller's view: handle -> [item, key] of each live item
    issued,     \* every handle the heap has returned so far
    last,       \* the last operation, its arguments and its return value
    phase,      \* the caller: "free", or scripted: "push", "drain", "done"
    script,     \* scripted caller: the pushes made, [value, index] each
    change,     \* scripted caller: the change-* made between pushes and pops
    outs,       \* scripted caller: [item, key] of each entry popped so far
    twin,       \* scripted caller: a second heap built by pushes only
    twin_outs,  \* scripted caller: [item, key] of each entry popped from twin
    deleted,    \* every handle the caller has passed to delete while it was live
    used        \* single-use caller: the pushed handles it has used up

vars == <<dag, dag_root, compare, aborted, live, entries, issued, last,
          phase, script, change, outs, twin, twin_outs, deleted, used>>

(***************************************************************************)
(* The comparison functions.                                               *)
(***************************************************************************)
\* min_heap_compare that also holds of equal keys
min_heap_compare_or_equal(lhs, rhs) == lhs <= rhs

min_heap_compare(lhs, rhs) == lhs < rhs

max_heap_compare(lhs, rhs) == lhs > rhs

Compare(lhs, rhs) ==
    IF compare = "min" THEN min_heap_compare(lhs, rhs)
    ELSE max_heap_compare(lhs, rhs)

\* derive_key of the heaps whose item type is the key type: |value| *value
derive_key(value) == value

(***************************************************************************)
(* The arena (generational_arena::Arena as the heap uses it).  An Index is *)
(* <<slot, generation>>; slots are numbered from 0; a removed slot goes to *)
(* the head of the free list and every removal increments the generation.  *)
(* Arena::new() reserves DefaultCapacity slots.                            *)
(***************************************************************************)
DefaultCapacity == 4

FreeEntry(next_free) == [tag |-> "Free", next_free |-> next_free]
OccupiedEntry(gen, value) == [tag |-> "Occupied", generation |-> gen, value |-> value]

ArenaReserve(a, additional) ==
    LET start == Len(a.items)
        end == start + additional
        fresh == [j \in 1 .. additional |->
                    IF start + j - 1 = end - 1
                    THEN FreeEntry(a.free_list_head)
                    ELSE FreeEntry(Some(start + j))]
    IN  IF additional = 0 THEN a
        ELSE [a EXCEPT !.items = a.items \o fresh, !.free_list_head = Some(start)]

ArenaWithCapacity(n) ==
    ArenaReserve([items |-> <<>>, generation |-> 0, free_list_head |-> None, len |-> 0], n)

ArenaNew == ArenaWithCapacity(DefaultCapacity)

\* a containment test that ignores the generation of the handle
ArenaContains_any_generation(a, index) ==
    /\ index[1] < Len(a.items)
    /\ a.items[index[1] + 1].tag = "Occupied"

ArenaContains(a, index) ==
    /\ index[1] < Len(a.items)
    /\ a.items[index[1] + 1].tag = "Occupied"
    /\ a.items[index[1] + 1].generation = index[2]

\* write back through a mutable reference obtained from the arena
ArenaSet(a, index, node) ==
    [a EXCEPT !.items[index[1] + 1].value = node]

\* Arena::try_insert on an arena b with a free slot: the arena and the Index
\* of the new entry
ArenaTryInsert(b, value) ==
    LET slot == Unwrap(b.free_list_head)
    IN  [arena |-> [b EXCEPT !.items[slot + 1] = OccupiedEntry(b.generation, value),
                             !.free_list_head = b.items[slot + 1].next_free,
                             !.len = b.len + 1],
         index |-> <<slot, b.generation>>]

\* Arena::insert: doubles the capacity when no slot is free
ArenaInsert(a, value) ==
    ArenaTryInsert(IF IsSome(a.free_list_head) THEN a
                   ELSE ArenaReserve(a, IF Len(a.items) = 0 THEN 1 ELSE Len(a.items)),
                   value)

\* Arena::remove that forgets to count the entry down
ArenaRemove_keeps_len(a, index) ==
    IF ArenaContains(a, index)
    THEN [a EXCEPT !.items[index[1] + 1] = FreeEntry(a.free_list_head),
                   !.generation = a.generation + 1,
                   !.free_list_head = Some(index[1])]
    ELSE a

\* Arena::remove
ArenaRemove(a, index) ==
    IF ArenaContains(a, index)
    THEN [a EXCEPT !.items[index[1] + 1] = FreeEntry(a.free_list_head),
                   !.generation = a.generation + 1,
                   !.free_list_head = Some(index[1]),
                   !.len = a.len - 1]
    ELSE a

\* the Index of every occupied slot
ArenaIndices(a) ==
    {<<s - 1, a.items[s].generation>> : s \in {t \in 1 .. Len(a.items) : a.items[t].tag = "Occupied"}}

NodeOf(a, index) == a.items[index[1] + 1].value

(***************************************************************************)
(* Node                                                                    *)
(***************************************************************************)
NodeNew(item, key) ==
    [index |-> None, item |-> Some(item), child |-> None, next |-> None,
     second_parent |-> None, key |-> key, rank |-> 0]

\* the new node learns its own Index; ins is the result of the insert
set_index(ins) ==
    [arena |-> ArenaSet(ins.arena, ins.index,
                        [NodeOf(ins.arena, ins.index) EXCEPT !.index = Some(ins.index)]),
     index |-> ins.index]

\* new_in_arena that stores the key in place of the item
new_in_arena_item_is_key(a, item, key) == set_index(ArenaInsert(a, NodeNew(key, key)))

new_in_arena(a, item, key) == set_index(ArenaInsert(a, NodeNew(item, key)))

\* is_hollow that looks at the second parent instead of the item
is_hollow_by_parent(node) == node.second_parent = None

is_hollow(node) == node.item = None

\* add_child that forgets to hang the old children behind the new child
add_child_drops_siblings(a, parent, child) ==
    LET p == NodeOf(a, parent)
        c == NodeOf(a, child)
        a1 == ArenaSet(a, child, [c EXCEPT !.next = None])
        a2 == ArenaSet(a1, parent, [p EXCEPT !.child = Some(Unwrap(c.index))])
    IN  [arena |-> a2, ret |-> Unwrap(p.index)]

\* parent.add_child(child) on two nodes of arena a: the arena afterwards
\* and the returned Index (the parent's)
add_child(a, parent, child) ==
    LET p == NodeOf(a, parent)
        c == NodeOf(a, child)
        a1 == ArenaSet(a, child, [c EXCEPT !.next = p.child])
        a2 == ArenaSet(a1, parent, [p EXCEPT !.child = Some(Unwrap(c.index))])
    IN  [arena |-> a2, ret |-> Unwrap(p.index)]

\* link with the comparison the wrong way round
link_inverted(a, self, other) ==
    IF Compare(NodeOf(a, other).key, NodeOf(a, self).key)
    THEN add_child(a, self, other)
    ELSE add_child(a, other, self)

\* self.link(other, compare)
link(a, self, other) ==
    IF Compare(NodeOf(a, self).key, NodeOf(a, other).key)
    THEN add_child(a, self, other)
    ELSE add_child(a, other, self)

\* the result r of add_child as the result of a ranked link that succeeded
Ranked(r) == [arena |-> r.arena, ret |-> r.ret, panic |-> FALSE]

\* win_rank that leaves the rank of the winner as it is
win_rank_keeps_rank(a, winner, loser) == Ranked(add_child(a, winner, loser))

\* the winner of a ranked link gains a rank and the loser as child
win_rank(a, winner, loser) ==
    Ranked(add_child(ArenaSet(a, winner, [NodeOf(a, winner) EXCEPT !.rank = @ + 1]),
                     winner, loser))

\* ranked_link that makes the loser of the comparison the parent
ranked_link_inverted(a, self, other) ==
    IF NodeOf(a, self).rank # NodeOf(a, other).rank
    THEN [arena |-> a, ret |-> self, panic |-> TRUE]
    ELSE IF Compare(NodeOf(a, other).key, NodeOf(a, self).key)
         THEN win_rank(a, self, other)
         ELSE win_rank(a, other, self)

\* self.ranked_link(other, compare); panic when the ranks differ
ranked_link(a, self, other) ==
    IF NodeOf(a, self).rank # NodeOf(a, other).rank
    THEN [arena |-> a, ret |-> self, panic |-> TRUE]
    ELSE IF Compare(NodeOf(a, self).key, NodeOf(a, other).key)
         THEN win_rank(a, self, other)
         ELSE win_rank(a, other, self)

\* Arena::get2_mut followed by the two unwraps: TRUE when both succeed
Get2Ok(a, i1, i2) ==
    /\ i1[1] # i2[1]
    /\ ArenaContains(a, i1)
    /\ ArenaContains(a, i2)

(***************************************************************************)
(* HollowHeap.  A heap value is [dag, dag_root]; an operation returns      *)
(* [dag, dag_root, ret, panic].                                            *)
(***************************************************************************)
Heap(a, root) == [dag |-> a, dag_root |-> root]

Outcome(a, root, ret, panic) ==
    [dag |-> a, dag_root |-> root, ret |-> ret, panic |-> panic]

HollowHeapNew == Heap(ArenaNew, None)

is_empty(H) == H.dag.len = 0

\* the heap whose root is the winner of the link l; ret is what is returned
Linked(l, ret) == Outcome(l.arena, Some(l.ret), ret, FALSE)

\* push_node that hangs the new node under the root without comparing
push_node_under_root(H, n) ==
    IF IsSome(H.dag_root)
    THEN IF Get2Ok(n.arena, Unwrap(H.dag_root), n.index)
         THEN Linked(add_child(n.arena, Unwrap(H.dag_root), n.index), n.index)
         ELSE Outcome(n.arena, H.dag_root, n.index, TRUE)
    ELSE Outcome(n.arena, Some(n.index), n.index, FALSE)

\* push_with_key once the node n = [arena, index] is in the arena
push_node(H, n) ==
    IF IsSome(H.dag_root)
    THEN IF Get2Ok(n.arena, Unwrap(H.dag_root), n.index)
         THEN Linked(link(n.arena, Unwrap(H.dag_root), n.index), n.index)
         ELSE Outcome(n.arena, H.dag_root, n.index, TRUE)
    ELSE Outcome(n.arena, Some(n.index), n.index, FALSE)

push_with_key(H, value, key) == push_node(H, new_in_arena(H.dag, value, key))

push(H, value) == push_with_key(H, value, derive_key(value))

peek(H) ==
    IF IsSome(H.dag_root) THEN NodeOf(H.dag, Unwrap(H.dag_root)).item ELSE None

\* new_rank that subtracts in the 8 bits of the rank without a test
new_rank_wraps(rank) == (rank + 256 - 2) % 256

\* the rank given to the node that replaces a hollowed one
new_rank(rank) == IF rank > 1 THEN rank - 2 ELSE 0

\* a key assertion that lets an equal key pass
key_is_not_worse(new_key, old_key) == ~Compare(old_key, new_key)

\* the key assertion of update
key_is_better(new_key, old_key) == Compare(new_key, old_key)

\* update of the root that forgets to overwrite the key
update_root_keeps_key(H, index, new_item, new_key) ==
    IF ~ArenaContains(H.dag, index) THEN Outcome(H.dag, H.dag_root, index, TRUE)
    ELSE LET node == NodeOf(H.dag, index)
         IN  IF ~key_is_better(new_key, node.key)
             THEN Outcome(H.dag, H.dag_root, index, TRUE)
             ELSE LET n1 == IF IsSome(new_item) THEN [node EXCEPT !.item = Some(Unwrap(new_item))]
                            ELSE node
                  IN  Outcome(ArenaSet(H.dag, index, n1), H.dag_root, index, FALSE)

\* update, the branch for the root: in place
update_root(H, index, new_item, new_key) ==
    IF ~ArenaContains(H.dag, index) THEN Outcome(H.dag, H.dag_root, index, TRUE)
    ELSE LET node == NodeOf(H.dag, index)
         IN  IF ~key_is_better(new_key, node.key)
             THEN Outcome(H.dag, H.dag_root, index, TRUE)
             ELSE LET n1 == IF IsSome(new_item) THEN [node EXCEPT !.item = Some(Unwrap(new_item))]
                            ELSE node
                      n2 == [n1 EXCEPT !.key = new_key]
                  IN  Outcome(ArenaSet(H.dag, index, n2), H.dag_root, index, FALSE)

\* the replacing node always carries the old item
updated_item_keeps_old(old_item, new_item) == old_item

\* the item the replacing node carries: the new item if there is one
updated_item(old_item, new_item) ==
    IF IsSome(new_item) THEN Unwrap(new_item) ELSE old_item

\* update_replaced that never hangs the hollow node under the new node
update_replaced_unlinked(p, index, rank) ==
    IF p.panic THEN p
    ELSE LET new_index == p.ret
             new_node == [NodeOf(p.dag, new_index) EXCEPT !.rank = new_rank(rank)]
         IN  Outcome(ArenaSet(p.dag, new_index, new_node), p.dag_root, new_index, FALSE)

\* update of a node that is not the root, after the push (with outcome p) of
\* the node that replaces it: the new node gets its rank and, unless it became
\* the root, the hollow node as child and itself as the second parent
update_replaced(p, index, rank) ==
    IF p.panic THEN p
    ELSE LET new_index == p.ret
             became_root == p.dag_root = Some(new_index)
             new_node == [NodeOf(p.dag, new_index) EXCEPT
                            !.rank = new_rank(rank),
                            !.child = IF became_root THEN @ ELSE Some(index)]
             second_parent == IF became_root THEN None ELSE Some(new_index)
             a2 == ArenaSet(p.dag, new_index, new_node)
         IN  Outcome(ArenaSet(a2, index,
                              [NodeOf(a2, index) EXCEPT !.second_parent = second_parent]),
                     p.dag_root, new_index, FALSE)

\* update_hollow that returns quietly when the item is already gone
update_hollow_unchecked(H, index, new_item, new_key) ==
    IF ~ArenaContains(H.dag, index) THEN Outcome(H.dag, H.dag_root, index, TRUE)
    ELSE LET node == NodeOf(H.dag, index)
         IN  IF ~key_is_better(new_key, node.key)
             THEN Outcome(H.dag, H.dag_root, index, TRUE)
             ELSE IF node.item = None
             THEN Outcome(H.dag, H.dag_root, index, FALSE)
             ELSE update_replaced(
                      push_with_key(
                          Heap(ArenaSet(H.dag, index, [node EXCEPT !.item = None]),
                               H.dag_root),
                          updated_item(Unwrap(node.item), new_item), new_key),
                      index, node.rank)

\* update, the branch for a node that is not the root: the node becomes hollow
update_hollow(H, index, new_item, new_key) ==
    IF ~ArenaContains(H.dag, index) THEN Outcome(H.dag, H.dag_root, index, TRUE)
    ELSE LET node == NodeOf(H.dag, index)
         IN  IF ~key_is_better(new_key, node.key)
             THEN Outcome(H.dag, H.dag_root, index, TRUE)
             ELSE IF node.item = None
             THEN Outcome(H.dag, H.dag_root, index, TRUE)
             ELSE update_replaced(
                      push_with_key(
                          Heap(ArenaSet(H.dag, index, [node EXCEPT !.item = None]),
                               H.dag_root),
                          updated_item(Unwrap(node.item), new_item), new_key),
                      index, node.rank)

\* update that treats the root like any other node
update_never_in_place(H, index, new_item, new_key) ==
    IF H.dag_root = None THEN Outcome(H.dag, H.dag_root, index, TRUE)
    ELSE IF new_key = None /\ new_item = None THEN Outcome(H.dag, H.dag_root, index, TRUE)
    ELSE update_hollow(H, index, new_item,
                       IF IsSome(new_key) THEN Unwrap(new_key)
                       ELSE derive_key(Unwrap(new_item)))

\* HollowHeap::update(index, new_item, new_key); the last two are Options
update(H, index, new_item, new_key) ==
    IF H.dag_root = None THEN Outcome(H.dag, H.dag_root, index, TRUE)
    ELSE IF new_key = None /\ new_item = None THEN Outcome(H.dag, H.dag_root, index, TRUE)
    ELSE LET key == IF IsSome(new_key) THEN Unwrap(new_key)
                    ELSE derive_key(Unwrap(new_item))
         IN  IF H.dag_root = Some(index)
             THEN update_root(H, index, new_item, key)
             ELSE update_hollow(H, index, new_item, key)

\* change_key that passes the new key as the new item
change_key_as_item(H, index, new_key) == update(H, index, Some(new_key), None)

change_key(H, index, new_key) == update(H, index, None, Some(new_key))

change_item(H, index, new_item) == update(H, index, Some(new_item), None)

(***************************************************************************)
(* delete: the extract rebuild.  The loop state is                         *)
(*   [arena, queue, next_root, roots_by_rank, max_rank, panic, diverge,    *)
(*    ranks_differ];                                                       *)
(* ranks_differ tells the panic of the assertion of ranked_link from the   *)
(* panics of the arena lookups.                                            *)
(***************************************************************************)
Max(x, y) == IF x >= y THEN x ELSE y

\* Vec::resize(n, None)
Resize(v, n) ==
    IF n <= Len(v) THEN SubSeq(v, 1, n)
    ELSE v \o [j \in 1 .. (n - Len(v)) |-> None]

RECURSIVE coalesce(_, _, _)
\* one round of the loop after its ranked link with result r: the slot of the
\* rank is emptied and the winner goes on with the next rank
coalesce_linked(S, r, rank) ==
    IF r.panic THEN [S EXCEPT !.panic = TRUE, !.ranks_differ = TRUE]
    ELSE LET rbr1 == [S.roots_by_rank EXCEPT ![rank + 1] = None]
             rbr2 == IF rank + 1 >= Len(rbr1) THEN Append(rbr1, None) ELSE rbr1
         IN  coalesce([S EXCEPT !.arena = r.arena, !.roots_by_rank = rbr2],
                      r.ret, rank + 1)

\* the `while let Some(index) = roots_by_rank[rank]` loop and what follows it
coalesce(S, cur_child_idx, rank) ==
    IF IsSome(S.roots_by_rank[rank + 1])
    THEN LET index == Unwrap(S.roots_by_rank[rank + 1])
         IN  IF ~Get2Ok(S.arena, index, cur_child_idx)
             THEN [S EXCEPT !.panic = TRUE]
             ELSE coalesce_linked(S, ranked_link(S.arena, index, cur_child_idx), rank)
    ELSE LET max_rank == Max(rank, S.max_rank)
             rbr == Resize(S.roots_by_rank, max_rank + 1)
         IN  [S EXCEPT !.max_rank = max_rank,
                       !.roots_by_rank = [rbr EXCEPT ![rank + 1] = Some(cur_child_idx)]]

\* hollow_child that takes every hollow child for one without second parent
hollow_child_always_harvests(S, to_delete, child_idx, next_child) ==
    LET current_child == NodeOf(S.arena, child_idx)
    IN  [S |-> [S EXCEPT !.arena = ArenaSet(S.arena, child_idx,
                                [current_child EXCEPT !.next = S.next_root]),
                          !.next_root = Some(Unwrap(current_child.index))],
         next_child |-> next_child]

\* the hollow branch of the child walk: the loop state and the next child
hollow_child(S, to_delete, child_idx, next_child) ==
    LET current_child == NodeOf(S.arena, child_idx)
    IN  IF current_child.second_parent = None
        THEN [S |-> [S EXCEPT !.arena = ArenaSet(S.arena, child_idx,
                                    [current_child EXCEPT !.next = S.next_root]),
                              !.next_root = Some(Unwrap(current_child.index))],
              next_child |-> next_child]
        ELSE IF current_child.second_parent = Some(to_delete)
             THEN [S |-> [S EXCEPT !.arena = ArenaSet(S.arena, child_idx,
                                    [current_child EXCEPT !.second_parent = None])],
                   next_child |-> None]
             ELSE [S |-> [S EXCEPT !.arena = ArenaSet(S.arena, child_idx,
                                    [current_child EXCEPT !.next = None,
                                                          !.second_parent = None])],
                   next_child |-> next_child]

\* the living branch of the child walk
living_child(S, child_idx) ==
    LET rank == NodeOf(S.arena, child_idx).rank
        rbr == IF rank >= Len(S.roots_by_rank) THEN Resize(S.roots_by_rank, rank + 1)
               ELSE S.roots_by_rank
    IN  coalesce([S EXCEPT !.roots_by_rank = rbr], child_idx, rank)

RECURSIVE walk_children(_, _, _, _)
\* walk_on that ends the walk after a hollow child
walk_off(h, to_delete, fuel) == walk_children(h.S, to_delete, None, fuel)

\* the walk goes on from the result h of the hollow branch
walk_on(h, to_delete, fuel) == walk_children(h.S, to_delete, h.next_child, fuel)

\* the `while let Some(child_idx) = next_child` loop
walk_children(S, to_delete, next_child, fuel) ==
    IF S.panic \/ next_child = None THEN S
    ELSE IF fuel = 0 THEN [S EXCEPT !.diverge = TRUE]
    ELSE LET child_idx == Unwrap(next_child)
         IN  IF ~ArenaContains(S.arena, child_idx) THEN [S EXCEPT !.panic = TRUE]
             ELSE LET nc == NodeOf(S.arena, child_idx).next
                  IN  IF is_hollow(NodeOf(S.arena, child_idx))
                      THEN walk_on(hollow_child(S, to_delete, child_idx, nc),
                                   to_delete, fuel - 1)
                      ELSE walk_children(living_child(S, child_idx), to_delete, nc, fuel - 1)

WalkFuel(a) == 3 * Len(a.items) + 3

RECURSIVE dismantle(_)
\* dismantled that leaves the dequeued node in the arena
dismantled_keeps_node(S2, to_delete) ==
    IF S2.panic \/ S2.diverge THEN S2
    ELSE dismantle([S2 EXCEPT !.queue = IF IsSome(S2.next_root)
                                        THEN Append(S2.queue, Unwrap(S2.next_root))
                                        ELSE S2.queue])

\* the end of one round of the loop, S2 being the state after the child walk:
\* the next root is queued and the node to delete leaves the arena
dismantled(S2, to_delete) ==
    IF S2.panic \/ S2.diverge THEN S2
    ELSE LET queue == IF IsSome(S2.next_root)
                      THEN Append(S2.queue, Unwrap(S2.next_root))
                      ELSE S2.queue
         IN  dismantle([S2 EXCEPT !.queue = queue,
                                  !.arena = ArenaRemove(S2.arena, to_delete)])

\* the `while let Some(current_root) = queue.pop_front()` loop
dismantle(S) ==
    IF S.panic \/ S.diverge \/ S.queue = <<>> THEN S
    ELSE LET current_root == Head(S.queue)
             to_delete == current_root
         IN  IF ~ArenaContains(S.arena, current_root) THEN [S EXCEPT !.panic = TRUE]
             ELSE LET root == NodeOf(S.arena, current_root)
                      S1 == [S EXCEPT !.queue = Tail(S.queue), !.next_root = root.next]
                  IN  dismantled(walk_children(S1, to_delete, root.child,
                                               WalkFuel(S.arena)),
                                 to_delete)

RECURSIVE combine_roots(_, _)
\* combine_linked that keeps the winner of the link and drops the link itself
combine_dropped(S, l, i) == combine_roots([S EXCEPT !.next_root = Some(l.ret)], i)

\* the loop goes on with the winner of the link l as the next root
combine_linked(S, l, i) ==
    combine_roots([S EXCEPT !.arena = l.arena, !.next_root = Some(l.ret)], i)

\* the `for root_idx in roots_by_rank` loop from position i on
combine_roots(S, i) ==
    IF S.panic \/ i > Len(S.roots_by_rank) THEN S
    ELSE IF S.roots_by_rank[i] = None THEN combine_roots(S, i + 1)
    ELSE LET root_index == Unwrap(S.roots_by_rank[i])
         IN  IF S.next_root = None
             THEN combine_roots([S EXCEPT !.next_root = Some(root_index)], i + 1)
             ELSE IF ~Get2Ok(S.arena, Unwrap(S.next_root), root_index)
                  THEN [S EXCEPT !.panic = TRUE]
                  ELSE combine_linked(S, link(S.arena, Unwrap(S.next_root), root_index),
                                      i + 1)

\* delete_other that returns the root also when the handle is not in the arena
delete_other_returns_root(H, index) ==
    IF ArenaContains(H.dag, index)
    THEN Outcome(ArenaSet(H.dag, index,
                          [NodeOf(H.dag, index) EXCEPT !.item = None, !.second_parent = None]),
                 H.dag_root, H.dag_root, FALSE)
    ELSE Outcome(H.dag, H.dag_root, H.dag_root, FALSE)

\* delete of a handle that is not the root
delete_other(H, index) ==
    IF ArenaContains(H.dag, index)
    THEN Outcome(ArenaSet(H.dag, index,
                          [NodeOf(H.dag, index) EXCEPT !.item = None, !.second_parent = None]),
                 H.dag_root, H.dag_root, FALSE)
    ELSE Outcome(H.dag, H.dag_root, None, FALSE)

\* the outcome of delete when the rebuild ends in state S2
new_root(H, S2) ==
    IF S2.panic THEN Outcome(S2.arena, H.dag_root, None, TRUE)
    ELSE Outcome(S2.arena, S2.next_root, S2.next_root, FALSE)

\* the roots that the queue loop left in state S1 are linked to one
rebuilt(H, S1) ==
    IF S1.panic \/ S1.diverge THEN Outcome(S1.arena, H.dag_root, None, TRUE)
    ELSE new_root(H, combine_roots(S1, 1))

\* delete of the root that leaves the heap as it is
delete_root_keeps(H, root_index) == Outcome(H.dag, H.dag_root, H.dag_root, FALSE)

\* rebuild_start that puts the root into the queue twice
rebuild_start_twice(H, root_index) ==
    [arena |-> ArenaSet(H.dag, root_index,
                        [NodeOf(H.dag, root_index) EXCEPT !.next = None,
                                                         !.second_parent = None]),
     queue |-> <<root_index, root_index>>, next_root |-> None,
     roots_by_rank |-> <<None>>, max_rank |-> 0,
     panic |-> FALSE, diverge |-> FALSE, ranks_differ |-> FALSE]

\* the loop state before the queue loop: the root is cut loose and queued
rebuild_start(H, root_index) ==
    [arena |-> ArenaSet(H.dag, root_index,
                        [NodeOf(H.dag, root_index) EXCEPT !.next = None,
                                                         !.second_parent = None]),
     queue |-> <<root_index>>, next_root |-> None,
     roots_by_rank |-> <<None>>, max_rank |-> 0,
     panic |-> FALSE, diverge |-> FALSE, ranks_differ |-> FALSE]

\* delete of the root: the rebuild
delete_root(H, root_index) ==
    IF ~ArenaContains(H.dag, root_index) THEN Outcome(H.dag, H.dag_root, None, FALSE)
    ELSE rebuilt(H, dismantle(rebuild_start(H, root_index)))

\* the loop state in which the queue loop of a delete of the root of H ends
Rebuild(H) == dismantle(rebuild_start(H, Unwrap(H.dag_root)))

\* delete that runs the rebuild for every handle
delete_always_rebuilds(H, index) == delete_root(H, index)

\* HollowHeap::delete(index)
delete(H, index) ==
    IF H.dag_root # Some(index) THEN delete_other(H, index)
    ELSE delete_root(H, index)

\* pop returns the item taken from the root; d is the outcome of the delete,
\* whose return value is the new root
popped(d, item) == Outcome(d.dag, d.ret, item, d.panic)

\* HollowHeap::pop()
pop(H) ==
    IF IsSome(H.dag_root)
    THEN LET root_index == Unwrap(H.dag_root)
         IN  IF ~ArenaContains(H.dag, root_index) THEN Outcome(H.dag, H.dag_root, None, TRUE)
             ELSE LET item == NodeOf(H.dag, root_index).item
                      a1 == ArenaSet(H.dag, root_index,
                                     [NodeOf(H.dag, root_index) EXCEPT !.item = None])
                  IN  popped(delete(Heap(a1, H.dag_root), root_index), item)
    ELSE Outcome(H.dag, None, None, FALSE)

(***************************************************************************)
(* IntoIter: the iterator that owns the heap and drains it.                *)
(***************************************************************************)
into_iter(H) == [inner |-> H]

\* IntoIter::next: the outcome of the pop of the inner heap
iter_next(it) == pop(it.inner)

\* IntoIter::size_hint
size_hint(it) == <<it.inner.dag.len, Some(it.inner.dag.len)>>

RECURSIVE items_left(_, _)
\* the items from the call of next with outcome o on: none when o is none
counted(o, fuel) ==
    IF o.panic \/ o.ret = None THEN 0
    ELSE 1 + items_left(into_iter(Heap(o.dag, o.dag_root)), fuel - 1)

\* the number of items that calls of next return before the first none
items_left(it, fuel) == IF fuel = 0 THEN 0 ELSE counted(iter_next(it), fuel)

(***************************************************************************)
(* The state machine.  In phase "free" the caller applies any operation to *)
(* the heap; the handles it passes are handles of items it holds live      *)
(* (entries), or, for delete, also handles of items freed earlier.  The    *)
(* number of nodes ever created, generation + len of the arena, is bounded *)
(* by MaxNodes.                                                            *)
(***************************************************************************)
TheHeap == Heap(dag, dag_root)

Op(name, index, arg, ret) == [op |-> name, index |-> index, arg |-> arg, ret |-> ret]

NoChange == [kind |-> "none", pos |-> 0, arg |-> 0]

ScriptIdle ==
    /\ script = <<>>
    /\ change = NoChange
    /\ outs = <<>>
    /\ twin = HollowHeapNew
    /\ twin_outs = <<>>
    /\ used = {}

InitHeap ==
    /\ dag = ArenaNew
    /\ dag_root = None
    /\ compare \in {"min", "max"}
    /\ aborted = FALSE
    /\ live = 0
    /\ entries = <<>>
    /\ issued = {}
    /\ deleted = {}
    /\ last = Op("new", None, None, None)
    /\ ScriptIdle

Init ==
    /\ InitHeap
    /\ phase = "free"

\* the heap fields after an operation with outcome o
Apply(o) ==
    /\ dag' = o.dag
    /\ dag_root' = o.dag_root
    /\ aborted' = o.panic

Without(f, h) == [g \in DOMAIN f \ {h} |-> f[g]]

With(f, h, e) == [g \in DOMAIN f \cup {h} |-> IF g = h THEN e ELSE f[g]]

Entry(item, key) == [item |-> item, key |-> key]

Running == phase \in {"free", "misuse", "reuse"} /\ ~aborted

\* the caller that comes back to handles it has used up keeps a record of
\* the handles it passed to delete
Deleted(index) ==
    IF phase \in {"misuse", "reuse"} THEN deleted \cup {index} ELSE deleted

PushOp(value) ==
    /\ Running
    /\ dag.generation + dag.len < MaxNodes
    /\ \E o \in {push(TheHeap, value)} :
           /\ Apply(o)
           /\ live' = live + 1
           /\ entries' = With(entries, o.ret, Entry(value, derive_key(value)))
           /\ issued' = issued \cup {o.ret}
           /\ last' = Op("push", None, Some(value), Some(o.ret))
    /\ UNCHANGED <<compare, phase, script, change, outs, twin, twin_outs, deleted, used>>

PeekOp ==
    /\ Running
    /\ last' = Op("peek", None, None, peek(TheHeap))
    /\ UNCHANGED <<dag, dag_root, compare, aborted, live, entries, issued,
                   phase, script, change, outs, twin, twin_outs, deleted, used>>

ChangeKeyOp(index, new_key) ==
    /\ Running
    /\ index \in DOMAIN entries
    /\ dag_root = Some(index) \/ dag.generation + dag.len < MaxNodes
    /\ \E o \in {change_key(TheHeap, index, new_key)} :
           /\ Apply(o)
           /\ IF o.panic
              THEN /\ UNCHANGED <<entries, issued>>
                   /\ last' = Op("change_key", Some(index), Some(new_key), None)
              ELSE /\ entries' = With(Without(entries, index), o.ret,
                                      Entry(entries[index].item, new_key))
                   /\ issued' = issued \cup {o.ret}
                   /\ last' = Op("change_key", Some(index), Some(new_key), Some(o.ret))
    /\ UNCHANGED <<compare, live, phase, script, change, outs, twin, twin_outs, deleted, used>>

ChangeItemOp(index, new_item) ==
    /\ Running
    /\ index \in DOMAIN entries
    /\ dag_root = Some(index) \/ dag.generation + dag.len < MaxNodes
    /\ \E o \in {change_item(TheHeap, index, new_item)} :
           /\ Apply(o)
           /\ IF o.panic
              THEN /\ UNCHANGED <<entries, issued>>
                   /\ last' = Op("change_item", Some(index), Some(new_item), None)
              ELSE /\ entries' = With(Without(entries, index), o.ret,
                                      Entry(new_item, derive_key(new_item)))
                   /\ issued' = issued \cup {o.ret}
                   /\ last' = Op("change_item", Some(index), Some(new_item), Some(o.ret))
    /\ UNCHANGED <<compare, live, phase, script, change, outs, twin, twin_outs, deleted, used>>

\* delete of the handle of a live item
DeleteOp(index) ==
    /\ Running
    /\ index \in DOMAIN entries
    /\ \E o \in {delete(TheHeap, index)} :
           /\ Apply(o)
           /\ last' = Op("delete", Some(index), None, o.ret)
    /\ live' = live - 1
    /\ entries' = Without(entries, index)
    /\ deleted' = Deleted(index)
    /\ UNCHANGED <<compare, issued, phase, script, change, outs, twin, twin_outs, used>>

\* delete of a handle whose node has been freed from the arena
DeleteStaleOp(index) ==
    /\ Running
    /\ index \in issued
    /\ ~ArenaContains(dag, index)
    /\ \E o \in {delete(TheHeap, index)} :
           /\ Apply(o)
           /\ last' = Op("delete_stale", Some(index), None, o.ret)
    /\ UNCHANGED <<compare, live, entries, issued, phase, script, change, outs,
                   twin, twin_outs, deleted, used>>

\* delete of a handle that the caller has passed to delete before
DeleteAgainOp(index) ==
    /\ Running /\ phase = "misuse"
    /\ index \in deleted
    /\ \E o \in {delete(TheHeap, index)} :
           /\ Apply(o)
           /\ last' = Op("delete_again", Some(index), None, o.ret)
    /\ UNCHANGED <<compare, live, entries, issued, phase, script, change, outs,
                   twin, twin_outs, deleted, used>>

\* the handles of hollow nodes that are still in the arena: hollowed by a
\* change-* or a delete that did not hit the root, and not freed yet
HollowHandles ==
    {h \in issued \ DOMAIN entries : ArenaContains(dag, h) /\ is_hollow(NodeOf(dag, h))}

\* change_key with the handle of a hollow node
ChangeKeyHollowOp(index, new_key) ==
    /\ Running /\ phase = "misuse"
    /\ index \in HollowHandles
    /\ \E o \in {change_key(TheHeap, index, new_key)} :
           /\ Apply(o)
           /\ last' = Op("change_key_hollow", Some(index), Some(new_key),
                         IF o.panic THEN None ELSE Some(o.ret))
    /\ UNCHANGED <<compare, live, entries, issued, phase, script, change, outs,
                   twin, twin_outs, deleted, used>>

\* change_item with the handle of a hollow node
ChangeItemHollowOp(index, new_item) ==
    /\ Running /\ phase = "misuse"
    /\ index \in HollowHandles
    /\ \E o \in {change_item(TheHeap, index, new_item)} :
           /\ Apply(o)
           /\ last' = Op("change_item_hollow", Some(index), Some(new_item),
                         IF o.panic THEN None ELSE Some(o.ret))
    /\ UNCHANGED <<compare, live, entries, issued, phase, script, change, outs,
                   twin, twin_outs, deleted, used>>

PopOp ==
    /\ Running
    /\ \E o \in {pop(TheHeap)} :
           /\ Apply(o)
           /\ last' = Op("pop", None, None, o.ret)
           /\ live' = IF IsSome(o.ret) THEN live - 1 ELSE live
    /\ entries' = IF IsSome(dag_root) THEN Without(entries, Unwrap(dag_root)) ELSE entries
    /\ UNCHANGED <<compare, issued, phase, script, change, outs, twin, twin_outs, deleted, used>>

Next ==
    \/ \E value \in Values : PushOp(value)
    \/ PeekOp
    \/ \E index \in DOMAIN entries : \E new_key \in Keys : ChangeKeyOp(index, new_key)
    \/ \E index \in DOMAIN entries : \E new_item \in Values : ChangeItemOp(index, new_item)
    \/ \E index \in DOMAIN entries : DeleteOp(index)
    \/ \E index \in issued : DeleteStaleOp(index)
    \/ PopOp

Spec == Init /\ [][Next]_vars

(***************************************************************************)
(* The caller that also comes back to handles it has used up: besides      *)
(* push, change-key, delete and pop on live handles it calls delete with   *)
(* handles it has passed to delete before or whose node has been freed,    *)
(* and change-key and change-item with handles of hollow nodes.            *)
(***************************************************************************)
InitMisuse ==
    /\ InitHeap
    /\ phase = "misuse"

NextMisuse ==
    \/ \E value \in Values : PushOp(value)
    \/ \E index \in DOMAIN entries : \E new_key \in Keys : ChangeKeyOp(index, new_key)
    \/ \E index \in DOMAIN entries : DeleteOp(index)
    \/ \E index \in issued : DeleteStaleOp(index)
    \/ \E index \in deleted : DeleteAgainOp(index)
    \/ \E index \in issued : \E new_key \in Keys : ChangeKeyHollowOp(index, new_key)
    \/ \E index \in issued : \E new_item \in Values : ChangeItemHollowOp(index, new_item)
    \/ PopOp

SpecMisuse == InitMisuse /\ [][NextMisuse]_vars

(***************************************************************************)
(* The caller that deletes what it has already changed: besides push,      *)
(* change-key, delete and pop on live handles it calls delete with the     *)
(* handle of a node that a change-key made hollow and that is still in the *)
(* arena.                                                                  *)
(***************************************************************************)
InitReuse ==
    /\ InitHeap
    /\ phase = "reuse"

\* delete with the handle of a node hollowed by a change-key
DeleteHollowOp(index) ==
    /\ Running /\ phase = "reuse"
    /\ index \in HollowHandles \ deleted
    /\ \E o \in {delete(TheHeap, index)} :
           /\ Apply(o)
           /\ last' = Op("delete_hollow", Some(index), None, o.ret)
    /\ deleted' = deleted \cup {index}
    /\ UNCHANGED <<compare, live, entries, issued, phase, script, change, outs,
                   twin, twin_outs, used>>

NextReuse ==
    \/ \E value \in Values : PushOp(value)
    \/ \E index \in DOMAIN entries : \E new_key \in Keys : ChangeKeyOp(index, new_key)
    \/ \E index \in DOMAIN entries : DeleteOp(index)
    \/ \E index \in issued : DeleteHollowOp(index)
    \/ PopOp

SpecReuse == InitReuse /\ [][NextReuse]_vars

(***************************************************************************)
(* The scripted caller: up to MaxPush pushes, then at most one change-key  *)
(* or change-item with a strictly better key on one of the pushed handles, *)
(* then pops until pop returns none.  The twin heap receives the same      *)
(* pushes, except that the entry changed in the heap is pushed into the    *)
(* twin with its final item and key from the start (push_with_key); the    *)
(* twin is popped together with the heap.                                  *)
(***************************************************************************)
InitScript ==
    /\ InitHeap
    /\ phase = "push"

\* the item and the key the entry pushed at position i ends up with
FinalEntry(i) ==
    IF change.kind = "key" /\ change.pos = i
    THEN Entry(script[i].value, change.arg)
    ELSE IF change.kind = "item" /\ change.pos = i
         THEN Entry(change.arg, derive_key(change.arg))
         ELSE Entry(script[i].value, derive_key(script[i].value))

\* the heap that an operation with outcome o leaves
HeapOf(o) == Heap(o.dag, o.dag_root)

RECURSIVE Replay(_, _)
\* the heap after pushing the first n entries of the list es with their keys
Replay(es, n) ==
    IF n = 0 THEN HollowHeapNew
    ELSE HeapOf(push_with_key(Replay(es, n - 1), es[n].item, es[n].key))

ScriptPush(value) ==
    /\ phase = "push" /\ ~aborted
    /\ Len(script) < MaxPush
    /\ \E o \in {push(TheHeap, value)} :
           /\ Apply(o)
           /\ script' = Append(script, [value |-> value, index |-> o.ret])
           /\ twin' = HeapOf(push(twin, value))
           /\ live' = live + 1
           /\ entries' = With(entries, o.ret, Entry(value, derive_key(value)))
           /\ issued' = issued \cup {o.ret}
           /\ last' = Op("push", None, Some(value), Some(o.ret))
    /\ UNCHANGED <<compare, phase, change, outs, twin_outs, deleted, used>>

ScriptChangeKey(pos, new_key) ==
    /\ phase = "push" /\ ~aborted
    /\ pos \in 1 .. Len(script)
    /\ Compare(new_key, derive_key(script[pos].value))
    /\ \E o \in {change_key(TheHeap, script[pos].index, new_key)} :
       LET index == script[pos].index
           es == [i \in 1 .. Len(script) |->
                    IF i = pos THEN Entry(script[i].value, new_key)
                    ELSE Entry(script[i].value, derive_key(script[i].value))]
       IN  /\ Apply(o)
           /\ change' = [kind |-> "key", pos |-> pos, arg |-> new_key]
           /\ twin' = Replay(es, Len(es))
           /\ entries' = With(Without(entries, index), o.ret,
                              Entry(entries[index].item, new_key))
           /\ issued' = issued \cup {o.ret}
           /\ last' = Op("change_key", Some(index), Some(new_key), Some(o.ret))
    /\ phase' = "drain"
    /\ UNCHANGED <<compare, live, script, outs, twin_outs, deleted, used>>

ScriptChangeItem(pos, new_item) ==
    /\ phase = "push" /\ ~aborted
    /\ pos \in 1 .. Len(script)
    /\ Compare(derive_key(new_item), derive_key(script[pos].value))
    /\ \E o \in {change_item(TheHeap, script[pos].index, new_item)} :
       LET index == script[pos].index
           es == [i \in 1 .. Len(script) |->
                    IF i = pos THEN Entry(new_item, derive_key(new_item))
                    ELSE Entry(script[i].value, derive_key(script[i].value))]
       IN  /\ Apply(o)
           /\ change' = [kind |-> "item", pos |-> pos, arg |-> new_item]
           /\ twin' = Replay(es, Len(es))
           /\ entries' = With(Without(entries, index), o.ret,
                              Entry(new_item, derive_key(new_item)))
           /\ issued' = issued \cup {o.ret}
           /\ last' = Op("change_item", Some(index), Some(new_item), Some(o.ret))
    /\ phase' = "drain"
    /\ UNCHANGED <<compare, live, script, outs, twin_outs, deleted, used>>

\* delete of the entry pushed at position pos, while it is live: before the
\* first pop or between two pops
ScriptDelete(pos) ==
    /\ phase \in {"push", "drain"} /\ ~aborted
    /\ change = NoChange
    /\ pos \in 1 .. Len(script)
    /\ script[pos].index \in DOMAIN entries
    /\ \E o \in {delete(TheHeap, script[pos].index)} :
           /\ Apply(o)
           /\ last' = Op("delete", Some(script[pos].index), None, o.ret)
    /\ change' = [kind |-> "delete", pos |-> pos, arg |-> 0]
    /\ phase' = "drain"
    /\ live' = live - 1
    /\ entries' = Without(entries, script[pos].index)
    /\ deleted' = deleted \cup {script[pos].index}
    /\ UNCHANGED <<compare, issued, script, outs, twin, twin_outs, used>>

\* the [item, key] a pop with outcome o removed from heap H, appended to out
Popped(out, H, o) ==
    IF IsSome(o.ret)
    THEN Append(out, Entry(Unwrap(o.ret), NodeOf(H.dag, Unwrap(H.dag_root)).key))
    ELSE out

ScriptPop ==
    /\ phase \in {"push", "drain"} /\ ~aborted
    /\ \E o \in {pop(TheHeap)}, t \in {pop(twin)} :
           /\ Apply(o)
           /\ outs' = Popped(outs, TheHeap, o)
           /\ twin' = HeapOf(t)
           /\ twin_outs' = Popped(twin_outs, twin, t)
           /\ phase' = IF IsSome(o.ret) THEN "drain" ELSE "done"
           /\ live' = IF IsSome(o.ret) THEN live - 1 ELSE live
           /\ last' = Op("pop", None, None, o.ret)
    /\ entries' = IF IsSome(dag_root) THEN Without(entries, Unwrap(dag_root)) ELSE entries
    /\ UNCHANGED <<compare, issued, script, change, deleted, used>>

NextScript ==
    \/ \E value \in ScriptValues : ScriptPush(value)
    \/ \E pos \in 1 .. MaxPush : \E new_key \in ScriptValues : ScriptChangeKey(pos, new_key)
    \/ \E pos \in 1 .. MaxPush : \E new_item \in ScriptValues : ScriptChangeItem(pos, new_item)
    \/ \E pos \in 1 .. MaxPush : ScriptDelete(pos)
    \/ ScriptPop

SpecScript == InitScript /\ [][NextScript]_vars

(***************************************************************************)
(* The single-use caller: at least two and up to MaxUse pushes; then it    *)
(* uses each pushed handle at most once, in any order, for a change-key or *)
(* a change-item with a strictly better key or for a delete; then it pops  *)
(* until pop returns none.                                                 *)
(***************************************************************************)
InitUse ==
    /\ InitHeap
    /\ phase = "load"

Unused(pos) ==
    /\ pos \in 1 .. Len(script)
    /\ script[pos].index \notin used

UsePush(value) ==
    /\ phase = "load" /\ ~aborted
    /\ Len(script) < MaxUse
    /\ \E o \in {push(TheHeap, value)} :
           /\ Apply(o)
           /\ script' = Append(script, [value |-> value, index |-> o.ret])
           /\ live' = live + 1
           /\ entries' = With(entries, o.ret, Entry(value, derive_key(value)))
           /\ issued' = issued \cup {o.ret}
           /\ last' = Op("push", None, Some(value), Some(o.ret))
    /\ UNCHANGED <<compare, phase, change, outs, twin, twin_outs, deleted, used>>

UseChangeKey(pos, new_key) ==
    /\ phase \in {"load", "use"} /\ ~aborted
    /\ Len(script) >= 2
    /\ Unused(pos)
    /\ Compare(new_key, derive_key(script[pos].value))
    /\ \E o \in {change_key(TheHeap, script[pos].index, new_key)} :
           /\ Apply(o)
           /\ entries' = With(Without(entries, script[pos].index), o.ret,
                              Entry(script[pos].value, new_key))
           /\ issued' = issued \cup {o.ret}
           /\ last' = Op("change_key", Some(script[pos].index), Some(new_key), Some(o.ret))
    /\ used' = used \cup {script[pos].index}
    /\ phase' = "use"
    /\ UNCHANGED <<compare, live, script, change, outs, twin, twin_outs, deleted>>

UseChangeItem(pos, new_item) ==
    /\ phase \in {"load", "use"} /\ ~aborted
    /\ Len(script) >= 2
    /\ Unused(pos)
    /\ Compare(derive_key(new_item), derive_key(script[pos].value))
    /\ \E o \in {change_item(TheHeap, script[pos].index, new_item)} :
           /\ Apply(o)
           /\ entries' = With(Without(entries, script[pos].index), o.ret,
                              Entry(new_item, derive_key(new_item)))
           /\ issued' = issued \cup {o.ret}
           /\ last' = Op("change_item", Some(script[pos].index), Some(new_item), Some(o.ret))
    /\ used' = used \cup {script[pos].index}
    /\ phase' = "use"
    /\ UNCHANGED <<compare, live, script, change, outs, twin, twin_outs, deleted>>

UseDelete(pos) ==
    /\ phase \in {"load", "use"} /\ ~aborted
    /\ Len(script) >= 2
    /\ Unused(pos)
    /\ \E o \in {delete(TheHeap, script[pos].index)} :
           /\ Apply(o)
           /\ last' = Op("delete", Some(script[pos].index), None, o.ret)
    /\ live' = live - 1
    /\ entries' = Without(entries, script[pos].index)
    /\ deleted' = deleted \cup {script[pos].index}
    /\ used' = used \cup {script[pos].index}
    /\ phase' = "use"
    /\ UNCHANGED <<compare, issued, script, change, outs, twin, twin_outs>>

UsePop ==
    /\ phase \in {"load", "use", "empty"} /\ ~aborted
    /\ Len(script) >= 2
    /\ \E o \in {pop(TheHeap)} :
           /\ Apply(o)
           /\ outs' = Popped(outs, TheHeap, o)
           /\ phase' = IF IsSome(o.ret) THEN "empty" ELSE "over"
           /\ live' = IF IsSome(o.ret) THEN live - 1 ELSE live
           /\ last' = Op("pop", None, None, o.ret)
    /\ entries' = IF IsSome(dag_root) THEN Without(entries, Unwrap(dag_root)) ELSE entries
    /\ UNCHANGED <<compare, issued, script, change, twin, twin_outs, deleted, used>>

NextUse ==
    \/ \E value \in Values : UsePush(value)
    \/ \E pos \in 1 .. MaxUse : \E new_key \in Keys : UseChangeKey(pos, new_key)
    \/ \E pos \in 1 .. MaxUse : \E new_item \in Values : UseChangeItem(pos, new_item)
    \/ \E pos \in 1 .. MaxUse : UseDelete(pos)
    \/ UsePop

SpecUse == InitUse /\ [][NextUse]_vars

(***************************************************************************)
(* The caller that builds ranks: up to MaxFill pushes of one of two        *)
(* values, one pop, whose rebuild links the children of the root by rank,  *)
(* then one change-key or change-item with a strictly better key on a live *)
(* handle that is not the root.                                            *)
(***************************************************************************)
InitFill ==
    /\ InitHeap
    /\ phase = "fill"

FillPush(value) ==
    /\ phase = "fill" /\ ~aborted
    /\ dag.len < MaxFill
    /\ \E o \in {push(TheHeap, value)} :
           /\ Apply(o)
           /\ live' = live + 1
           /\ entries' = With(entries, o.ret, Entry(value, derive_key(value)))
           /\ issued' = issued \cup {o.ret}
           /\ last' = Op("push", None, Some(value), Some(o.ret))
    /\ UNCHANGED <<compare, phase, script, change, outs, twin, twin_outs, deleted, used>>

FillPop ==
    /\ phase = "fill" /\ ~aborted
    /\ IsSome(dag_root)
    /\ \E o \in {pop(TheHeap)} :
           /\ Apply(o)
           /\ last' = Op("pop", None, None, o.ret)
    /\ live' = live - 1
    /\ entries' = Without(entries, Unwrap(dag_root))
    /\ phase' = "ranked"
    /\ UNCHANGED <<compare, issued, script, change, outs, twin, twin_outs, deleted, used>>

RankChangeKey(index, new_key) ==
    /\ phase = "ranked" /\ ~aborted
    /\ index \in DOMAIN entries
    /\ dag_root # Some(index)
    /\ Compare(new_key, entries[index].key)
    /\ \E o \in {change_key(TheHeap, index, new_key)} :
           /\ Apply(o)
           /\ entries' = With(Without(entries, index), o.ret,
                              Entry(entries[index].item, new_key))
           /\ issued' = issued \cup {o.ret}
           /\ last' = Op("change_key", Some(index), Some(new_key), Some(o.ret))
    /\ phase' = "reranked"
    /\ UNCHANGED <<compare, live, script, change, outs, twin, twin_outs, deleted, used>>

RankChangeItem(index, new_item) ==
    /\ phase = "ranked" /\ ~aborted
    /\ index \in DOMAIN entries
    /\ dag_root # Some(index)
    /\ Compare(derive_key(new_item), entries[index].key)
    /\ \E o \in {change_item(TheHeap, index, new_item)} :
           /\ Apply(o)
           /\ entries' = With(Without(entries, index), o.ret,
                              Entry(new_item, derive_key(new_item)))
           /\ issued' = issued \cup {o.ret}
           /\ last' = Op("change_item", Some(index), Some(new_item), Some(o.ret))
    /\ phase' = "reranked"
    /\ UNCHANGED <<compare, live, script, change, outs, twin, twin_outs, deleted, used>>

NextFill ==
    \/ \E value \in FillValues : FillPush(value)
    \/ FillPop
    \/ \E index \in DOMAIN entries : \E new_key \in FillKeys : RankChangeKey(index, new_key)
    \/ \E index \in DOMAIN entries : \E new_item \in FillKeys : RankChangeItem(index, new_item)

SpecFill == InitFill /\ [][NextFill]_vars

(***************************************************************************)
(* Views of the heap used by the properties.                               *)
(***************************************************************************)
\* the handles of the nodes that hold an item
LivingIndices(a) == {h \in ArenaIndices(a) : NodeOf(a, h).item # None}

RECURSIVE ChildWalk(_, _, _, _)
\* the child list of parent from next_child on, as the rebuild walks it: along
\* next, ending with the hollow child whose second parent is parent
ChildWalk(a, parent, next_child, fuel) ==
    IF next_child = None \/ fuel = 0 THEN {}
    ELSE IF ~ArenaContains(a, Unwrap(next_child)) THEN {}
    ELSE LET c == Unwrap(next_child)
             n == NodeOf(a, c)
         IN  {c} \cup (IF n.item = None /\ n.second_parent = Some(parent) THEN {}
                       ELSE ChildWalk(a, parent, n.next, fuel - 1))

Children(a, parent) == ChildWalk(a, parent, NodeOf(a, parent).child, Len(a.items))

(***************************************************************************)
(* C1: after every operation the root is none only if no node is living;   *)
(* otherwise it identifies a living node, no living node has a key that is *)
(* strictly better than the root's, and peek returns that node's item.     *)
(***************************************************************************)
RootIsOptimum ==
    /\ ArenaContains(dag, Unwrap(dag_root))
    /\ NodeOf(dag, Unwrap(dag_root)).item # None
    /\ \A h \in LivingIndices(dag) :
          ~Compare(NodeOf(dag, h).key, NodeOf(dag, Unwrap(dag_root)).key)

C1_RootIsOptimum ==
    /\ dag_root = None => LivingIndices(dag) = {}
    /\ dag_root # None => RootIsOptimum
    /\ dag_root # None => peek(TheHeap) = NodeOf(dag, Unwrap(dag_root)).item
    /\ last.op = "peek" => last.ret = peek(TheHeap)

\* a peek that returns an item, after a rebuild that left two living nodes
C1_Witness ==
    /\ last.op = "peek"
    /\ IsSome(last.ret)
    /\ dag.generation > 0
    /\ Cardinality(LivingIndices(dag)) >= 2

(***************************************************************************)
(* C3: heap order, non-strict form: a living child in the child list of a  *)
(* living parent never has a key strictly better than its parent's key.    *)
(***************************************************************************)
C3_HeapOrder ==
    \A p \in LivingIndices(dag) :
        \A c \in Children(dag, p) \cap LivingIndices(dag) :
            ~Compare(NodeOf(dag, c).key, NodeOf(dag, p).key)

\* a rebuild has ranked-linked two living nodes: the winner has rank 1 and
\* a living child
C3_Witness ==
    \E p \in LivingIndices(dag) :
        /\ NodeOf(dag, p).rank >= 1
        /\ Children(dag, p) \cap LivingIndices(dag) # {}

(***************************************************************************)
(* C4: the number of living nodes in the arena equals the caller's count   *)
(* of live items (push +1, a pop that returns an item -1, delete of a      *)
(* living handle -1, change-key and change-item 0).                        *)
(***************************************************************************)
C4_LiveCount == Cardinality(LivingIndices(dag)) = live

\* a rebuild that freed the root and a hollow node, and left a living node
C4_Witness ==
    /\ last.op \in {"pop", "delete"}
    /\ dag.generation >= 2
    /\ live >= 1

(***************************************************************************)
(* C9: change-key and change-item abort exactly when the new key is not    *)
(* strictly better than the node's current key, for the root and for any   *)
(* other node, and an abort leaves every node and the root as they were.   *)
(***************************************************************************)
ChangeAbortsUnmodified ==
    last'.op \in {"change_key", "change_item"} =>
        LET index == Unwrap(last'.index)
            new_key == IF last'.op = "change_key" THEN Unwrap(last'.arg)
                       ELSE derive_key(Unwrap(last'.arg))
        IN  /\ aborted' <=> ~Compare(new_key, NodeOf(dag, index).key)
            /\ aborted' => dag' = dag /\ dag_root' = dag_root

C9_ChangeAborts == [][ChangeAbortsUnmodified]_vars

\* a change-key of a node that is not the root, to the key it has, aborted
C9_Witness ==
    /\ aborted
    /\ last.op = "change_key"
    /\ last.index # dag_root
    /\ NodeOf(dag, Unwrap(last.index)).key = Unwrap(last.arg)

(***************************************************************************)
(* C10 as stated: delete of a handle whose node has been freed returns the *)
(* handle of the current root.                                             *)
(***************************************************************************)
C10_StaleDeleteReturnsRoot == last.op = "delete_stale" => last.ret = dag_root

(***************************************************************************)
(* C10 amended: delete of a handle whose node has been freed returns none, *)
(* also when the heap has a root.                                          *)
(***************************************************************************)
C10_StaleDeleteReturnsNone == last.op = "delete_stale" => last.ret = None

\* a delete of a freed handle on a heap that has a root
C10_Witness ==
    /\ last.op = "delete_stale"
    /\ IsSome(dag_root)

(***************************************************************************)
(* C11: delete is idempotent: a delete with a handle that was passed to    *)
(* delete before, right after that delete or later, whether the node is    *)
(* hollow and still in the arena or has been freed, changes no node and    *)
(* not the root; so does any delete with a handle of a freed node.         *)
(***************************************************************************)
RepeatedDeleteUnmodified ==
    last'.op \in {"delete_again", "delete_stale"} =>
        /\ dag' = dag
        /\ dag_root' = dag_root

C11_DeleteIdempotent == [][RepeatedDeleteUnmodified]_vars

\* a second delete of a handle whose hollow node is still in the arena, next
\* to a living root
C11_Witness ==
    /\ last.op = "delete_again"
    /\ ArenaContains(dag, Unwrap(last.index))
    /\ IsSome(dag_root)
    /\ last.ret = dag_root

(***************************************************************************)
(* C15: change-key and change-item with the handle of a hollow node that   *)
(* is still in the arena abort, whatever the new key, and leave every node *)
(* and the root as they were.                                              *)
(***************************************************************************)
HollowChangeAborts ==
    last'.op \in {"change_key_hollow", "change_item_hollow"} =>
        /\ aborted'
        /\ dag' = dag
        /\ dag_root' = dag_root

C15_HollowChangeAborts == [][HollowChangeAborts]_vars

\* a change-key with a strictly better key on a node that an earlier
\* change-* made hollow has aborted
C15_Witness ==
    /\ aborted
    /\ last.op = "change_key_hollow"
    /\ Unwrap(last.index) \notin deleted
    /\ Compare(Unwrap(last.arg), NodeOf(dag, Unwrap(last.index)).key)

(***************************************************************************)
(* C16 as stated: heap order, strict form: for every living child in the   *)
(* child list of a living parent, compare(parent.key, child.key) holds.    *)
(***************************************************************************)
C16_StrictHeapOrder ==
    \A p \in LivingIndices(dag) :
        \A c \in Children(dag, p) \cap LivingIndices(dag) :
            Compare(NodeOf(dag, p).key, NodeOf(dag, c).key)

(***************************************************************************)
(* C16 amended: for every living child in the child list of a living       *)
(* parent, compare(parent.key, child.key) holds or the two keys are equal. *)
(***************************************************************************)
C16_HeapOrderUpToTies ==
    \A p \in LivingIndices(dag) :
        \A c \in Children(dag, p) \cap LivingIndices(dag) :
            \/ Compare(NodeOf(dag, p).key, NodeOf(dag, c).key)
            \/ NodeOf(dag, p).key = NodeOf(dag, c).key

\* a living parent and a living child with equal keys
C16_Witness ==
    \E p \in LivingIndices(dag) :
        \E c \in Children(dag, p) \cap LivingIndices(dag) :
            NodeOf(dag, p).key = NodeOf(dag, c).key

(***************************************************************************)
(* C17: change-key and change-item on the handle of the root are done in   *)
(* place: the handle returned is the argument, the root stays, and the     *)
(* arena afterwards is the arena before with the key of the root (and, for *)
(* change-item, its item) overwritten: no node is created, freed or        *)
(* hollowed and no child, next, second parent or rank changes.             *)
(***************************************************************************)
RootChangeInPlace ==
    (last'.op \in {"change_key", "change_item"} /\ last'.index = dag_root /\ ~aborted') =>
        LET index == Unwrap(last'.index)
            node == NodeOf(dag, index)
            changed == IF last'.op = "change_key"
                       THEN [node EXCEPT !.key = Unwrap(last'.arg)]
                       ELSE [node EXCEPT !.item = Some(Unwrap(last'.arg)),
                                         !.key = derive_key(Unwrap(last'.arg))]
        IN  /\ last'.ret = Some(index)
            /\ dag_root' = dag_root
            /\ dag' = ArenaSet(dag, index, changed)

C17_RootChangeInPlace == [][RootChangeInPlace]_vars

\* a change-item on a root that has a child went through
C17_Witness ==
    /\ last.op = "change_item"
    /\ ~aborted
    /\ last.index = dag_root
    /\ last.ret = dag_root
    /\ NodeOf(dag, Unwrap(dag_root)).child # None

(***************************************************************************)
(* C18: change-key and change-item on a living node h that is not the root *)
(* return a fresh handle h2; afterwards h is hollow and h2 holds the item  *)
(* with the new key; if h2 did not become the root, the root stays, h is   *)
(* the first child of h2 and h2 the second parent of h; if h2 became the   *)
(* root, h has no second parent and the first child of h2 is the previous  *)
(* root.                                                                   *)
(***************************************************************************)
NonRootChangeReplaces ==
    (last'.op \in {"change_key", "change_item"} /\ last'.index # dag_root /\ ~aborted') =>
        LET h == Unwrap(last'.index)
            h2 == Unwrap(last'.ret)
            item == IF last'.op = "change_key" THEN NodeOf(dag, h).item
                    ELSE Some(Unwrap(last'.arg))
            key == IF last'.op = "change_key" THEN Unwrap(last'.arg)
                   ELSE derive_key(Unwrap(last'.arg))
        IN  /\ h2 # h
            /\ h2 \notin issued
            /\ ~ArenaContains(dag, h2)
            /\ ArenaContains(dag', h) /\ ArenaContains(dag', h2)
            /\ NodeOf(dag', h).item = None
            /\ NodeOf(dag', h2).item = item
            /\ NodeOf(dag', h2).key = key
            /\ IF dag_root' # Some(h2)
               THEN /\ dag_root' = dag_root
                    /\ NodeOf(dag', h2).child = Some(h)
                    /\ NodeOf(dag', h).second_parent = Some(h2)
               ELSE /\ NodeOf(dag', h).second_parent = None
                    /\ NodeOf(dag', h2).child = dag_root
                    /\ dag_root # Some(h)

C18_NonRootChangeReplaces == [][NonRootChangeReplaces]_vars

\* a change-key replaced a node that was not the root by a new node that did
\* not become the root
C18_Witness ==
    /\ last.op = "change_key"
    /\ ~aborted
    /\ last.ret # last.index
    /\ last.ret # dag_root
    /\ NodeOf(dag, Unwrap(last.ret)).child = last.index
    /\ NodeOf(dag, Unwrap(last.index)).second_parent = last.ret

(***************************************************************************)
(* C20: delete of a live handle h that is not the root only hollows: it    *)
(* returns the handle of the root, the root stays, no slot is freed, and   *)
(* the arena afterwards is the arena before with the item and the second   *)
(* parent of h cleared: no key, rank, child or next changes.               *)
(***************************************************************************)
DeleteOnlyHollows ==
    (last'.op = "delete" /\ last'.index # dag_root) =>
        LET h == Unwrap(last'.index)
        IN  /\ last'.ret = dag_root
            /\ dag_root' = dag_root
            /\ dag'.len = dag.len
            /\ dag' = ArenaSet(dag, h, [NodeOf(dag, h) EXCEPT !.item = None,
                                                             !.second_parent = None])

C20_DeleteOnlyHollows == [][DeleteOnlyHollows]_vars

\* a delete hollowed a node that is not the root and that has a child
C20_Witness ==
    /\ last.op = "delete"
    /\ IsSome(dag_root)
    /\ last.ret = dag_root
    /\ last.index # dag_root
    /\ ArenaContains(dag, Unwrap(last.index))
    /\ NodeOf(dag, Unwrap(last.index)).child # None

(***************************************************************************)
(* What the scripted drain returned, and what it has to return.            *)
(***************************************************************************)
ItemsOf(out) == [i \in 1 .. Len(out) |-> out[i].item]

KeysOf(out) == [i \in 1 .. Len(out) |-> out[i].key]

Count(seq, x) == Cardinality({i \in 1 .. Len(seq) : seq[i] = x})

\* no later element is strictly better than an earlier one
BestFirst(keys) ==
    \A i, j \in 1 .. Len(keys) : i < j => ~Compare(keys[j], keys[i])

RECURSIVE InsertBestFirst(_, _)
InsertBestFirst(x, seq) ==
    IF seq = <<>> THEN <<x>>
    ELSE IF Compare(x, Head(seq)) THEN <<x>> \o seq
         ELSE <<Head(seq)>> \o InsertBestFirst(x, Tail(seq))

RECURSIVE SortBestFirst(_)
SortBestFirst(seq) ==
    IF seq = <<>> THEN <<>>
    ELSE InsertBestFirst(Head(seq), SortBestFirst(Tail(seq)))

ScriptValuesPushed == [i \in 1 .. Len(script) |-> script[i].value]

\* the entries the heap holds when the drain starts
ExpectedEntries == [i \in 1 .. Len(script) |-> FinalEntry(i)]

\* every popped entry is one of the expected entries, none comes twice, and
\* once pop has returned none every expected entry has come
EachExactlyOnce(out) ==
    /\ \A i \in 1 .. Len(out) : Count(out, out[i]) <= Count(ExpectedEntries, out[i])
    /\ phase = "done" => Len(out) = Len(script)

ScriptIs(cmp, values, kind, pos, arg) ==
    /\ compare = cmp
    /\ ScriptValuesPushed = values
    /\ change = [kind |-> kind, pos |-> pos, arg |-> arg]

(***************************************************************************)
(* C2: sorted drain: with pushes and pops only, the pops return the pushed *)
(* items in compare-sorted order, each exactly once, and the pop after the *)
(* last item returns none.                                                 *)
(***************************************************************************)
C2_SortedDrain ==
    change.kind = "none" =>
        /\ Len(outs) <= Len(script)
        /\ ItemsOf(outs) = SubSeq(SortBestFirst(ScriptValuesPushed), 1, Len(outs))
        /\ phase = "done" => Len(outs) = Len(script)

\* three items pushed and drained, the first pushed is not the first popped,
\* and two of them are equal
C2_Witness ==
    /\ phase = "done"
    /\ change.kind = "none"
    /\ Len(outs) = 3
    /\ outs[1].item # script[1].value
    /\ outs[2].item = outs[3].item

C7_SameEntryOrder == change.kind = "key" => outs = twin_outs

(***************************************************************************)
(* C7 amended: after change-key(h, k') the drain removes entries with the  *)
(* same keys in the same order as the drain of the twin, and returns the   *)
(* same items as often; entries with equal keys may come in another order. *)
(***************************************************************************)
C7_SameKeyOrder ==
    change.kind = "key" =>
        /\ KeysOf(outs) = KeysOf(twin_outs)
        /\ phase = "done" =>
              \A i \in 1 .. Len(outs) : Count(outs, outs[i]) = Count(twin_outs, outs[i])

\* a finished drain after a change-key in which the heap and the twin
\* removed entries with equal keys in different orders
C7_Witness ==
    /\ phase = "done"
    /\ change.kind = "key"
    /\ Len(outs) = 3
    /\ outs # twin_outs

(***************************************************************************)
(* C8: change_item(h, x) replaces the item by x and derives the key from   *)
(* x: the drain never returns the old item of h and returns x at the       *)
(* position of derive_key(x), whether or not h is the root; min-heap push  *)
(* 5, 42 (h), 4, change_item(h, 2): 2, 4, 5, none.                         *)
(***************************************************************************)
C8_ChangeItemReplaces ==
    change.kind = "item" =>
        /\ BestFirst(KeysOf(outs))
        /\ \A i \in 1 .. Len(outs) : outs[i].key = derive_key(outs[i].item)
        /\ EachExactlyOnce(outs)
        /\ (ScriptIs("min", <<5, 42, 4>>, "item", 2, 2) /\ phase = "done")
              => ItemsOf(outs) = <<2, 4, 5>>

\* the drain of the min-heap example has ended
C8_Witness ==
    /\ ScriptIs("min", <<5, 42, 4>>, "item", 2, 2)
    /\ phase = "done"
    /\ Len(outs) = 3

(***************************************************************************)
(* C12: delete of a living node removes exactly that item: the pops and    *)
(* peeks after it never return the deleted entry (more often than it was   *)
(* pushed besides), and the drain returns every other entry exactly once,  *)
(* best key first.                                                         *)
(***************************************************************************)
\* the entries pushed, without the one that was deleted
EntriesLeft ==
    [i \in 1 .. Len(script) - 1 |->
        ExpectedEntries[IF i < change.pos THEN i ELSE i + 1]]

\* the entry at the root, which peek and the next pop return
Peeked == Entry(Unwrap(peek(TheHeap)), NodeOf(dag, Unwrap(dag_root)).key)

C12_DeleteRemovesItem ==
    change.kind = "delete" =>
        /\ BestFirst(KeysOf(outs))
        /\ \A i \in 1 .. Len(outs) : Count(outs, outs[i]) <= Count(EntriesLeft, outs[i])
        /\ IsSome(dag_root) => /\ IsSome(peek(TheHeap))
                               /\ Count(outs, Peeked) < Count(EntriesLeft, Peeked)
        /\ phase = "done" => Len(outs) = Len(script) - 1

\* a drain of three pushes has ended in which an entry that was not the last
\* in the sorted order was deleted, and all three nodes have been freed
C12_Witness ==
    /\ phase = "done"
    /\ change.kind = "delete"
    /\ Len(script) = 3
    /\ Len(outs) = 2
    /\ dag.generation = 3
    /\ ItemsOf(outs) # SubSeq(SortBestFirst(ScriptValuesPushed), 1, 2)

(***************************************************************************)
(* C13: empty after drain: with pushes and pops only, is_empty is true on  *)
(* the new heap and after as many pops as pushes, and false as long as     *)
(* fewer items have been popped than pushed.                               *)
(***************************************************************************)
C13_EmptyAfterDrain ==
    change.kind = "none" => (is_empty(TheHeap) <=> Len(outs) = Len(script))

\* three pushes and exactly three pops, before the pop that returns none
C13_Witness ==
    /\ phase = "drain"
    /\ change.kind = "none"
    /\ Len(script) = 3
    /\ Len(outs) = 3
    /\ is_empty(TheHeap)

(***************************************************************************)
(* C14: no abort under single use of handles: while the single-use caller  *)
(* pushes, uses each pushed handle at most once and pops until pop returns *)
(* none, no operation aborts (no panic, and no child walk that does not    *)
(* end), and the pops that return an item are at most as many as the       *)
(* pushes, so that the pop loop ends.                                      *)
(***************************************************************************)
C14_NoAbortSingleUse ==
    /\ ~aborted
    /\ Len(outs) <= Len(script)

\* the pop loop has ended after three pushes whose handles were all used:
\* one for a delete and two for changes that each created a node
C14_Witness ==
    /\ phase = "over"
    /\ Len(script) = 3
    /\ Cardinality(used) = 3
    /\ Cardinality(deleted) = 1
    /\ dag.generation = 5
    /\ Len(outs) = 2

(***************************************************************************)
(* C19: the node that a change-key or change-item on a node that is not    *)
(* the root creates gets the rank max(0, r - 2), r being the rank of the   *)
(* node made hollow: 0 for r up to 2 and r - 2 above, within the 8 bits of *)
(* the rank, whether or not the new node became the root.                  *)
(***************************************************************************)
NewNodeRank ==
    (last'.op \in {"change_key", "change_item"} /\ last'.index # dag_root /\ ~aborted') =>
        LET r == NodeOf(dag, Unwrap(last'.index)).rank
            new_node == NodeOf(dag', Unwrap(last'.ret))
        IN  /\ new_node.rank = Max(0, r - 2)
            /\ new_node.rank \in 0 .. 255
            /\ NodeOf(dag', Unwrap(last'.index)).rank = r

C19_NewNodeRank == [][NewNodeRank]_vars

\* a change-key made a node of rank 3 hollow; the new node has rank 1 and is
\* not the root
C19_Witness ==
    /\ last.op = "change_key"
    /\ ~aborted
    /\ last.ret # last.index
    /\ last.ret # dag_root
    /\ NodeOf(dag, Unwrap(last.index)).rank = 3
    /\ NodeOf(dag, Unwrap(last.ret)).rank = 1

(***************************************************************************)
(* C21: the assertion of ranked_link never fails: in the rebuild that a    *)
(* pop would run in any reachable state, every ranked link joins two nodes *)
(* of one rank, and every slot r of roots_by_rank that holds a handle      *)
(* holds the handle of a living node of rank r.                            *)
(***************************************************************************)
SlotsHoldTheirRank(S) ==
    \A r \in 1 .. Len(S.roots_by_rank) :
        IsSome(S.roots_by_rank[r]) =>
            /\ ArenaContains(S.arena, Unwrap(S.roots_by_rank[r]))
            /\ ~is_hollow(NodeOf(S.arena, Unwrap(S.roots_by_rank[r])))
            /\ NodeOf(S.arena, Unwrap(S.roots_by_rank[r])).rank = r - 1

RanksAgree(S) == ~S.ranks_differ /\ SlotsHoldTheirRank(S)

C21_RankedLinkRanksEqual ==
    (IsSome(dag_root) /\ ~aborted) => RanksAgree(Rebuild(TheHeap))

RanksReach(S, rank) == ~S.panic /\ S.max_rank >= rank

\* a pop of this heap links two nodes of rank 0, of rank 1 and of rank 2
C21_Witness ==
    /\ phase = "fill"
    /\ IsSome(dag_root)
    /\ RanksReach(Rebuild(TheHeap), 3)

(***************************************************************************)
(* C22: the tie rule of link: a link of two living nodes of equal keys     *)
(* makes the second operand the parent and the first operand its first     *)
(* child.  So a push of a key equal to the key of the root makes the new   *)
(* node the root, with the old root as its first child, and a push of a    *)
(* strictly worse key keeps the root and puts the new node in front of the *)
(* child list of the root.                                                 *)
(***************************************************************************)
\* l is the result of a link in a that made parent the parent of child
ParentOf(a, l, parent, child) ==
    /\ l.ret = parent
    /\ NodeOf(l.arena, parent).child = Some(child)
    /\ NodeOf(l.arena, child).next = NodeOf(a, parent).child
    /\ NodeOf(l.arena, child).child = NodeOf(a, child).child

LinkTieRule ==
    \A self \in LivingIndices(dag) : \A other \in LivingIndices(dag) \ {self} :
        NodeOf(dag, self).key = NodeOf(dag, other).key =>
            /\ ~Compare(NodeOf(dag, self).key, NodeOf(dag, other).key)
            /\ ~Compare(NodeOf(dag, other).key, NodeOf(dag, self).key)
            /\ ParentOf(dag, link(dag, self, other), other, self)

PushTieRule ==
    (last'.op = "push" /\ IsSome(dag_root) /\ ~aborted') =>
        /\ NodeOf(dag', Unwrap(last'.ret)).key = NodeOf(dag, Unwrap(dag_root)).key =>
              /\ dag_root' = last'.ret
              /\ NodeOf(dag', Unwrap(last'.ret)).child = dag_root
              /\ NodeOf(dag', Unwrap(dag_root)).next = None
              /\ NodeOf(dag', Unwrap(dag_root)).child = NodeOf(dag, Unwrap(dag_root)).child
        /\ Compare(NodeOf(dag, Unwrap(dag_root)).key, NodeOf(dag', Unwrap(last'.ret)).key) =>
              /\ dag_root' = dag_root
              /\ NodeOf(dag', Unwrap(dag_root)).child = last'.ret
              /\ NodeOf(dag', Unwrap(last'.ret)).next = NodeOf(dag, Unwrap(dag_root)).child
              /\ NodeOf(dag', Unwrap(last'.ret)).child = None

C22_TieRule == [][LinkTieRule /\ PushTieRule]_vars

\* a push of the key of the root: the new node is the root, the old root is
\* its only child and has kept a child of its own
C22_Witness ==
    /\ last.op = "push"
    /\ ~aborted
    /\ dag_root = last.ret
    /\ IsSome(NodeOf(dag, Unwrap(dag_root)).child)
    /\ NodeOf(dag, Unwrap(NodeOf(dag, Unwrap(dag_root)).child)).key
           = NodeOf(dag, Unwrap(dag_root)).key
    /\ IsSome(NodeOf(dag, Unwrap(NodeOf(dag, Unwrap(dag_root)).child)).child)
    /\ NodeOf(dag, Unwrap(NodeOf(dag, Unwrap(dag_root)).child)).next = None

(***************************************************************************)
(* Reachability in the DAG along child and next, and the parents of a      *)
(* node: the nodes whose child list, as the rebuild walks it, holds it.    *)
(***************************************************************************)
RECURSIVE ReachFrom(_, _)
Grown(a, F, G) == IF G = F THEN F ELSE ReachFrom(a, G)

ReachFrom(a, F) ==
    Grown(a, F, F \cup {t \in ArenaIndices(a) :
                           \E s \in F : \/ NodeOf(a, s).child = Some(t)
                                        \/ NodeOf(a, s).next = Some(t)})

Reach(a, root) == ReachFrom(a, {root})

Parents(a, c) == {d \in ArenaIndices(a) : c \in Children(a, d)}

RECURSIVE Harvest(_, _)
Harvested(a, F, G) == IF G = F THEN F ELSE Harvest(a, G)

\* the removed nodes F and the hollow nodes all of whose parents are in F
Harvest(a, F) ==
    Harvested(a, F, F \cup {c \in ArenaIndices(a) :
                               /\ is_hollow(NodeOf(a, c))
                               /\ Parents(a, c) # {}
                               /\ Parents(a, c) \subseteq F})

\* the step removes the root: a pop, or a delete of the root
RemovesRoot ==
    /\ IsSome(dag_root)
    /\ ~aborted'
    /\ \/ last'.op = "pop"
       \/ last'.op = "delete" /\ last'.index = dag_root

(***************************************************************************)
(* C23: one rebuild (a pop or a delete of the root) frees the removed root *)
(* and those hollow nodes all of whose parents it frees, and no other      *)
(* node: a hollow node below a living child stays as it is, and a hollow   *)
(* node that has one of its two parents freed stays in the arena and loses *)
(* its second-parent mark.                                                 *)
(***************************************************************************)
FreesTheHarvest ==
    RemovesRoot =>
        /\ ArenaIndices(dag) \ ArenaIndices(dag') = Harvest(dag, {Unwrap(dag_root)})
        /\ \A c \in ArenaIndices(dag') :
              (\E d \in ArenaIndices(dag) \ ArenaIndices(dag') : c \in Children(dag, d)) =>
                  NodeOf(dag', c).second_parent = None
        /\ \A c \in ArenaIndices(dag') :
              (\A d \in ArenaIndices(dag) \ ArenaIndices(dag') : c \notin Children(dag, d)) =>
                  NodeOf(dag', c).second_parent = NodeOf(dag, c).second_parent

C23_RebuildFreesHarvest == [][FreesTheHarvest]_vars

\* as stated: every hollow node reachable from the removed root is freed
AllReachableHollowFreed ==
    RemovesRoot =>
        \A h \in Reach(dag, Unwrap(dag_root)) :
            is_hollow(NodeOf(dag, h)) => h \notin ArenaIndices(dag')

C23_AllReachableHollowFreed == [][AllReachableHollowFreed]_vars

\* the first pop came after a delete and a change-key of handles that were not
\* the root; it freed the node that the delete made hollow and kept the node
\* that the change-key made hollow
C23_Witness ==
    /\ last.op = "pop"
    /\ ~aborted
    /\ Len(outs) = 1
    /\ dag.generation = 2
    /\ \E h \in used \ deleted : ArenaContains(dag, h) /\ is_hollow(NodeOf(dag, h))
    /\ \E pos \in 1 .. Len(script) :
          /\ script[pos].index \in deleted
          /\ ~ArenaContains(dag, script[pos].index)
          /\ Compare(outs[1].key, derive_key(script[pos].value))

RefersIntoArena(a, ref) == IsSome(ref) => ArenaContains(a, Unwrap(ref))

WellFormed(a, root) ==
    \A i \in ArenaIndices(a) :
        /\ RefersIntoArena(a, NodeOf(a, i).child)
        /\ Some(i) # root => RefersIntoArena(a, NodeOf(a, i).next)
        /\ RefersIntoArena(a, NodeOf(a, i).second_parent)

C25_NoSilentCorruption ==
    /\ last.op \in {"push", "pop", "delete", "delete_hollow"} => ~aborted
    /\ ~aborted => WellFormed(dag, dag_root)

\* a pop aborts on an arena lookup, after a delete of a hollowed handle that
\* did not abort
C25_Witness ==
    /\ last.op = "pop"
    /\ aborted
    /\ \E h \in deleted : h \notin DOMAIN entries /\ ~ArenaContains(dag, h)
    /\ ~WellFormed(dag, dag_root)

(***************************************************************************)
(* C26: every pop and every delete comes to an end: in every reachable     *)
(* state no node reaches itself along child and next, neither a pop nor a  *)
(* delete aborts, and the rebuild that a pop would run ends with an empty  *)
(* queue, no child walk that goes on for ever and no lookup of a node that *)
(* it has already freed.                                                   *)
(***************************************************************************)
Successors(a, i) ==
    {t \in ArenaIndices(a) : NodeOf(a, i).child = Some(t) \/ NodeOf(a, i).next = Some(t)}

Acyclic(a) == \A i \in ArenaIndices(a) : i \notin ReachFrom(a, Successors(a, i))

Drains(S) == ~S.panic /\ ~S.diverge /\ S.queue = <<>>

C26_RebuildTerminates ==
    /\ last.op \in {"pop", "delete", "delete_stale"} => ~aborted
    /\ ~aborted => Acyclic(dag)
    /\ (~aborted /\ IsSome(dag_root)) => Drains(Rebuild(TheHeap))

Frees(S, n) == Drains(S) /\ S.arena.len + n <= dag.len

\* a pop of this heap takes three nodes through the queue and frees them
C26_Witness ==
    /\ ~aborted
    /\ IsSome(dag_root)
    /\ Frees(Rebuild(TheHeap), 3)

(***************************************************************************)
(* C27: is_empty agrees with the living items, although it is computed     *)
(* from the length of the arena, which counts hollow nodes: after every    *)
(* operation is_empty is true exactly when no node in the arena holds an   *)
(* item, which is exactly when the caller has no live item left.           *)
(***************************************************************************)
C27_IsEmptyAgrees ==
    ~aborted =>
        /\ is_empty(TheHeap) <=> LivingIndices(dag) = {}
        /\ is_empty(TheHeap) <=> live = 0
        /\ is_empty(TheHeap) <=> dag_root = None

\* three pushes, deletes of the two handles with the worse keys, which made
\* their nodes hollow, and one pop, of the last living item: the heap is empty
C27_Witness ==
    /\ last.op = "pop"
    /\ ~aborted
    /\ is_empty(TheHeap)
    /\ Len(outs) = 1
    /\ Len(script) = 3
    /\ Cardinality(deleted) = 2
    /\ used = deleted
    /\ \A pos \in 1 .. Len(script) :
          script[pos].index \in deleted =>
              Compare(outs[1].key, derive_key(script[pos].value))

(***************************************************************************)
(* C28: the size_hint of the draining iterator of a heap in any reachable  *)
(* state is (n, Some(n)), n being the number of items that the calls of    *)
(* next return before the first none.                                      *)
(***************************************************************************)
ItemsLeft == items_left(into_iter(TheHeap), dag.len + 1)

SizeHintIs(n) == size_hint(into_iter(TheHeap)) = <<n, Some(n)>>

C28_SizeHintExact == ~aborted => SizeHintIs(ItemsLeft)

\* after a delete of a node that is not the root the iterator announces at
\* least two items and returns one
C28_Witness ==
    /\ last.op = "delete"
    /\ ~aborted
    /\ SizeHintIs(2)
    /\ ItemsLeft = 1
    /\ dag.generation = 0

====
